---- MODULE Spec2Model ----
(***************************************************************************)
(* Model of the Express backend of AR-3D-Visualizer (backend/server.js):   *)
(* the GET /models/:file handler with its pre-compressed variant selection *)
(* and Range handling, run behind the global compression() middleware,     *)
(* over a models directory that other processes may change at any time.    *)
(*                                                                         *)
(* JavaScript strings are modelled as sequences of one-character strings,  *)
(* so that includes(), replace(), split() and parseInt() are computed the  *)
(* way the runtime computes them.                                          *)
(***************************************************************************)
EXTENDS Integers, Sequences, FiniteSets, TLC

(***************************************************************************)
(* Bounds of the model.                                                    *)
(***************************************************************************)
\* Modification times are drawn from 1..MaxClock.
MaxClock == 2

\* The number of WebSocket messages followed.
MaxMessages == 2

\* The number of files in the directory GET /api/models lists.
MaxFiles == 3

\* The number of runs of the precompression script.
MaxRuns == 2

\* The number of pending animations of one kind, and of fingers or pointers
\* on the screen.
MaxAnims == 2
MaxContacts == 2

(***************************************************************************)
(* JavaScript values and string functions.                                 *)
(***************************************************************************)
\* A request header that was not sent (req.headers[...] is undefined).
Undefined == <<"undefined">>

\* JavaScript truthiness of a string-or-undefined value.
Truthy(s) == s # Undefined /\ s # <<>>

Digits == {"0", "1", "2", "3", "4", "5", "6", "7", "8", "9"}

DigitVal(c) ==
  CASE c = "0" -> 0 [] c = "1" -> 1 [] c = "2" -> 2 [] c = "3" -> 3
    [] c = "4" -> 4 [] c = "5" -> 5 [] c = "6" -> 6 [] c = "7" -> 7
    [] c = "8" -> 8 [] c = "9" -> 9

MatchesAt(s, sub, i) ==
  /\ i + Len(sub) - 1 <= Len(s)
  /\ \A k \in 1..Len(sub) : s[i + k - 1] = sub[k]

\* String.prototype.includes
Includes(s, sub) == \E i \in 1..(Len(s) + 1) : MatchesAt(s, sub, i)

\* String.prototype.replace with a non-global pattern that is a literal:
\* the first occurrence of pat is removed, a string without one is unchanged.
RemoveFirst(s, pat) ==
  IF ~Includes(s, pat) THEN s
  ELSE LET i == CHOOSE j \in 1..(Len(s) + 1) :
                  /\ MatchesAt(s, pat, j)
                  /\ \A k \in 1..(j - 1) : ~MatchesAt(s, pat, k)
       IN  SubSeq(s, 1, i - 1) \o SubSeq(s, i + Len(pat), Len(s))

\* String.prototype.split on a one-character separator.
RECURSIVE Split(_, _)
Split(s, sep) ==
  IF \A i \in 1..Len(s) : s[i] # sep THEN <<s>>
  ELSE LET i == CHOOSE j \in 1..Len(s) :
                  s[j] = sep /\ \A k \in 1..(j - 1) : s[k] # sep
       IN  <<SubSeq(s, 1, i - 1)>> \o Split(SubSeq(s, i + 1, Len(s)), sep)

\* String.prototype.trim, for the blanks of a header value.
RECURSIVE TrimLeft(_)
TrimLeft(s) == IF s # <<>> /\ s[1] = " " THEN TrimLeft(Tail(s)) ELSE s

RECURSIVE TrimRight(_)
TrimRight(s) ==
  IF s # <<>> /\ s[Len(s)] = " " THEN TrimRight(SubSeq(s, 1, Len(s) - 1)) ELSE s

Trim(s) == TrimRight(TrimLeft(s))

\* The value of a run of decimal digits, most significant first.
RECURSIVE DigitsValue(_, _)
DigitsValue(s, acc) ==
  IF s = <<>> \/ s[1] \notin Digits THEN acc
  ELSE DigitsValue(Tail(s), 10 * acc + DigitVal(s[1]))

NaN == [nan |-> TRUE, val |-> 0]

\* parseInt(s, 10): leading blanks are skipped, then an optional sign, then
\* the longest run of digits; NaN when there is no digit there.
ParseInt(s) ==
  LET t    == TrimLeft(s)
      neg  == t # <<>> /\ t[1] = "-"
      body == IF t # <<>> /\ t[1] \in {"-", "+"} THEN Tail(t) ELSE t
  IN  IF body = <<>> \/ body[1] \notin Digits THEN NaN
      ELSE [nan |-> FALSE,
            val |-> IF neg THEN 0 - DigitsValue(body, 0) ELSE DigitsValue(body, 0)]

\* Number.isNaN
IsNaN(x) == x.nan

(***************************************************************************)
(* The models directory.                                                   *)
(***************************************************************************)
\* File names that requests ask for and that the directory may hold.
Names == {"chair-optimized.glb", "lamp.glb"}

NameChars(n) ==
  IF n = "chair-optimized.glb"
  THEN <<"c", "h", "a", "i", "r", "-", "o", "p", "t", "i", "m", "i", "z", "e", "d", ".", "g", "l", "b">>
  ELSE <<"l", "a", "m", "p", ".", "g", "l", "b">>

\* The canonical file and its two pre-compressed siblings (<name>, <name>.gz,
\* <name>.br).
Variants == {"glb", "gz", "br"}

Paths == Names \X Variants

\* Byte size of each file when it is present.
FileSize ==
  [p \in Paths |->
     IF p[1] = "chair-optimized.glb"
     THEN (CASE p[2] = "glb" -> 2000 [] p[2] = "gz" -> 1500 [] p[2] = "br" -> 1200)
     ELSE (CASE p[2] = "glb" -> 6 [] p[2] = "gz" -> 5 [] p[2] = "br" -> 4)]

Absent == [exists |-> FALSE, mtime |-> 0, complete |-> FALSE]

\* fs.existsSync
ExistsSync(dir, p) == dir[p].exists

(***************************************************************************)
(* Request inputs.                                                         *)
(***************************************************************************)
StrBr == <<"b", "r">>
StrGzip == <<"g", "z", "i", "p">>
StrDeflate == <<"d", "e", "f", "l", "a", "t", "e">>
StrBytesEq == <<"b", "y", "t", "e", "s", "=">>
StrOptimized == <<"-", "o", "p", "t", "i", "m", "i", "z", "e", "d">>

StrDevtunnels == <<".", "d", "e", "v", "t", "u", "n", "n", "e", "l", "s", ".", "m", "s">>
StrNgrok == <<".", "t", "u", "n", "n", "e", "l", "s", ".", "n", "g", "r", "o", "k", ".", "i", "o">>
StrLocaLt == <<".", "l", "o", "c", "a", ".", "l", "t">>

\* The origins the cors() options list by name.
AllowedOrigins ==
  { "http://localhost:3000", "https://localhost:3000",
    "http://localhost:5000", "https://localhost:5000",
    "http://127.0.0.1:3000", "https://127.0.0.1:3000",
    "http://127.0.0.1:5000", "https://127.0.0.1:5000" }

\* Origin header values: a listed origin, a tunnel origin and a foreign one.
Origins == {"http://localhost:3000", "https://ar.loca.lt", "https://other.example"}

\* The characters of an origin.
OriginChars(o) ==
  CASE o = "https://ar.loca.lt" ->
         <<"h", "t", "t", "p", "s", ":", "/", "/", "a", "r", ".", "l", "o", "c", "a", ".", "l", "t">>
    [] o = "https://other.example" ->
         <<"h", "t", "t", "p", "s", ":", "/", "/", "o", "t", "h", "e", "r", ".",
           "e", "x", "a", "m", "p", "l", "e">>
    [] OTHER ->
         <<"h", "t", "t", "p", ":", "/", "/", "l", "o", "c", "a", "l", "h", "o", "s", "t",
           ":", "3", "0", "0", "0">>

\* Accept-Encoding header values (without quality values).
AcceptEncodings ==
  { Undefined,
    StrGzip,
    StrBr,
    <<"g", "z", "i", "p", ",", " ", "d", "e", "f", "l", "a", "t", "e", ",", " ", "b", "r">> }

\* Range header values: absent, empty, and values of the form
\* bytes=<start>-<end> with one or both bounds missing, non-numeric, reversed,
\* at or past the end of the file, a value with no dash and a multi-range value.
RangeHeaders ==
  { Undefined,
    <<>>,
    <<"b", "y", "t", "e", "s", "=", "0", "-", "1">>,
    <<"b", "y", "t", "e", "s", "=", "2", "-", "5">>,
    <<"b", "y", "t", "e", "s", "=", "2", "-", "1">>,
    <<"b", "y", "t", "e", "s", "=", "0", "-", "1", "9", "9", "9">>,
    <<"b", "y", "t", "e", "s", "=", "0", "-", "2", "0", "0", "0">>,
    <<"b", "y", "t", "e", "s", "=", "2", "-">>,
    <<"b", "y", "t", "e", "s", "=", "-", "5">>,
    <<"b", "y", "t", "e", "s", "=", "x", "-", "1">>,
    <<"b", "y", "t", "e", "s", "=", "0", "-", "x">>,
    <<"b", "y", "t", "e", "s", "=", "3">>,
    <<"b", "y", "t", "e", "s", "=", "0", "-", "1", ",", "3", "-", "4">> }

(***************************************************************************)
(* State.                                                                  *)
(***************************************************************************)
VARIABLES
  now,   \* the clock that stamps modification times
  fs,    \* the models directory: for each path, whether it exists, its mtime and
         \* whether its content is completely written
  pc,    \* where the request being handled stands ("crashed": the process ended)
  req,   \* the request: file name, Accept-Encoding and Range headers
  loc,   \* the handler's locals: chosenPath, contentEncoding, total, start, end
  res,   \* the response: status, headers, compression stream, body
  log,   \* the file system and console calls made for this request, with their outcome
  parked, \* a second request in flight, waiting for its next callback
  clients, \* WebSocket: the readyState of each socket, "none" when not in wss.clients
  sent,    \* WebSocket: the messages passed to client.send, per client
  inbox,   \* WebSocket: the 'message' events the server has handled
  files,   \* GET /api/models: the names readdirSync returns, in directory order
  models,  \* GET /api/models: the response
  info,    \* GET /api/models/:id: the id asked for and the response
  script,  \* precompression script: position, files left, run number, output
  streams, \* precompression script: the write stream of each sibling
  app,     \* React App: models, selectedModel, isInteracting, loading, error
  run,     \* React App: the run of fetchModels in flight or last settled
  anims,   \* the animations whose complete callback is still to come
  card,    \* a ModelCard of the grid: pinchRef.active and its pointerMap
  viewer,  \* InteractiveViewer: isFullscreen and its fullscreen requests
  doc      \* the document: fullscreen, scroll blockers, body overflow, contacts

\* The WebSocket server.
wsVars == <<clients, sent, inbox>>

\* GET /api/models.
apiVars == <<files, models, info>>

\* The precompression script.
preVars == <<script, streams>>

\* The React front end.
uiVars == <<app, run, anims, card, viewer, doc>>

\* The parts of the repository other than GET /models/:file.
others == <<wsVars, apiVars, preVars, uiVars>>

\* What the steps of the handler of GET /models/:file leave alone.
elsewhere == <<parked, others>>

\* The requests to GET /models/:file.
requestVars == <<pc, req, loc, res, log, parked>>

\* GET /models/:file and the directory it serves.
modelVars == <<now, fs, pc, req, loc, res, log, parked>>

vars == <<modelVars, others>>

(***************************************************************************)
(* The response object.                                                    *)
(***************************************************************************)
NoHeaders == [k \in {} |-> ""]

\* res.setHeader
SetHeader(h, k, v) == [x \in (DOMAIN h) \cup {k} |-> IF x = k THEN v ELSE h[x]]

\* res.removeHeader
RemoveHeader(h, k) == [x \in (DOMAIN h) \ {k} |-> h[x]]

HasHeader(h, k) == k \in DOMAIN h

NoBody == [kind |-> "none", file |-> <<"", "">>, from |-> 0, to |-> 0 - 1,
           coding |-> "identity", text |-> ""]

\* A body made of a literal text.
TextBody(t) == [NoBody EXCEPT !.kind = "text", !.text = t]

\* A body made of bytes from..to of a file, passed through a content coding.
FileBody(p, from, to, coding) ==
  [NoBody EXCEPT !.kind = "file", !.file = p, !.from = from, !.to = to,
                 !.coding = coding]

TextLength(t) ==
  CASE t = "Not found" -> 9
    [] t = "Server error" -> 12
    [] t = "Internal Server Error" -> 21

ContentRange(first, last, total) ==
  [unit |-> "bytes", star |-> FALSE, first |-> first, last |-> last, total |-> total]

\* The unsatisfied-range form, bytes */<total>.
ContentRangeStar(total) ==
  [unit |-> "bytes", star |-> TRUE, first |-> 0, last |-> 0, total |-> total]

(***************************************************************************)
(* app.use(compression()) is registered before every route, so each        *)
(* response of GET /models/:file passes through it. The middleware is the  *)
(* npm package "compression" called with no options; what is modelled is   *)
(* its documented default behaviour: when the headers are about to be      *)
(* written it leaves the response alone if its Content-Type is not a       *)
(* compressible media type, if its length is known and below the 1 kb      *)
(* threshold, or if a Content-Encoding other than identity is already set; *)
(* otherwise it negotiates gzip or deflate with Accept-Encoding, sets      *)
(* Content-Encoding, removes Content-Length and writes the body through    *)
(* the compression stream. It does not look at the status or at            *)
(* Content-Range.                                                          *)
(***************************************************************************)
\* Default threshold of compression(): smaller responses are left alone.
Threshold == 1024

\* Content types of this handler's responses that the default filter accepts
\* (media types registered as compressible; model/gltf-binary is one).
CompressibleTypes ==
  {"model/gltf-binary", "text/html; charset=utf-8", "text/plain; charset=utf-8"}

\* The codings listed in an Accept-Encoding value.
AcceptedCodings(ae) ==
  IF ae = Undefined THEN {}
  ELSE LET parts == Split(ae, ",") IN {Trim(parts[i]) : i \in 1..Len(parts)}

\* The coding the middleware negotiates among gzip, deflate and identity
\* (gzip is preferred to deflate).
NegotiatedCoding(ae) ==
  IF StrGzip \in AcceptedCodings(ae) \/ <<"*">> \in AcceptedCodings(ae) THEN "gzip"
  ELSE IF StrDeflate \in AcceptedCodings(ae) THEN "deflate"
  ELSE "identity"

\* The coding of the stream the body is written through ("identity": none).
\* lengthKnown/length: the length res.end() estimated when it was called before
\* the headers were written and no Content-Length was set.
CompressionCoding(ae, h, lengthKnown, length) ==
  IF ~HasHeader(h, "Content-Type") \/ h["Content-Type"] \notin CompressibleTypes
    THEN "identity"
  ELSE IF HasHeader(h, "Content-Length") /\ h["Content-Length"] < Threshold
    THEN "identity"
  ELSE IF lengthKnown /\ length < Threshold
    THEN "identity"
  ELSE IF HasHeader(h, "Content-Encoding") /\ h["Content-Encoding"] # "identity"
    THEN "identity"
  ELSE NegotiatedCoding(ae)

\* The headers as written: a compressed response gets Content-Encoding and
\* loses Content-Length.
CompressionHeaders(ae, h, lengthKnown, length) ==
  LET coding == CompressionCoding(ae, h, lengthKnown, length)
      varied == IF HasHeader(h, "Content-Type") /\ h["Content-Type"] \in CompressibleTypes
                THEN IF ~HasHeader(h, "Vary")
                       THEN SetHeader(h, "Vary", "Accept-Encoding")
                     ELSE IF h["Vary"] = "Origin"
                       THEN SetHeader(h, "Vary", "Origin, Accept-Encoding")
                     ELSE h
                ELSE h
  IN  IF coding = "identity" THEN varied
      ELSE RemoveHeader(SetHeader(varied, "Content-Encoding", coding), "Content-Length")

\* The headers are written (writeHead), through the middleware.
WriteHead(ae, r, lengthKnown, length) ==
  [r EXCEPT !.headers = CompressionHeaders(ae, r.headers, lengthKnown, length),
            !.coding = CompressionCoding(ae, r.headers, lengthKnown, length),
            !.headersSent = TRUE]

\* res.send(text): Content-Type defaults to text/html, Content-Length is set,
\* the headers are written and the body sent.
Send(ae, r, t) ==
  LET h1 == IF HasHeader(r.headers, "Content-Type") THEN r.headers
            ELSE SetHeader(r.headers, "Content-Type", "text/html; charset=utf-8")
      h2 == SetHeader(h1, "Content-Length", TextLength(t))
      w  == WriteHead(ae, [r EXCEPT !.headers = h2], FALSE, 0)
  IN  [w EXCEPT !.body = [TextBody(t) EXCEPT !.coding = w.coding], !.finished = TRUE]

\* The status message sent with the status left as it was.
SendStatusMutant(ae, r, code, msg) ==
  Send(ae, [r EXCEPT !.headers = SetHeader(r.headers, "Content-Type",
                                           "text/plain; charset=utf-8")], msg)

\* res.sendStatus(code): res.status(code).type('txt').send(<status message>)
SendStatus(ae, r, code, msg) ==
  Send(ae, [r EXCEPT !.status = code,
                     !.headers = SetHeader(r.headers, "Content-Type",
                                           "text/plain; charset=utf-8")], msg)

\* res.end() with no chunk.
End(ae, r) ==
  IF r.headersSent THEN [r EXCEPT !.finished = TRUE]
  ELSE [WriteHead(ae, r, ~HasHeader(r.headers, "Content-Length"), 0)
          EXCEPT !.finished = TRUE]

(***************************************************************************)
(* Initial state: the server has started on an empty models directory and  *)
(* no request has arrived.                                                 *)
(***************************************************************************)
NoRequest == [origin |-> "", file |-> "", acceptEnc |-> Undefined, range |-> Undefined]

InitLoc == [chosen |-> "glb", contentEncoding |-> "", total |-> 0,
            start |-> 0, end |-> 0]

InitRes == [status |-> 200, headers |-> NoHeaders, coding |-> "identity",
            headersSent |-> FALSE, finished |-> FALSE, body |-> NoBody]

\* The sockets that may connect and the messages they may send.
Clients == {"c1", "c2", "c3"}
Messages == {"m1", "m2"}

\* No socket is connected and nothing was relayed.
InitWs ==
  /\ clients = [c \in Clients |-> "none"]
  /\ sent = [c \in Clients |-> <<>>]
  /\ inbox = <<>>

\* The response of GET /api/models before the request is handled.
NoListing == [sent |-> FALSE, status |-> 200, json |-> <<>>, error |-> ""]

\* No file: the record a 404 or 500 answer of GET /api/models/:id carries
\* in place of the model's.
NoModel == [name |-> <<>>, path |-> <<>>, id |-> <<>>, size |-> 0, modified |-> 0]

\* The response of GET /api/models/:id before the request is handled.
NoInfo == [sent |-> FALSE, id |-> <<>>, status |-> 200, json |-> NoModel, error |-> ""]

InitApiIdle ==
  /\ files = <<>>
  /\ models = NoListing
  /\ info = NoInfo

\* The two siblings of a model file.
Siblings == {"gz", "br"}
SiblingPaths == Names \X Siblings

\* The precompression script has not run.
InitPreIdle ==
  /\ script = [pc |-> "off", queue |-> <<>>, run |-> 0, printed |-> FALSE]
  /\ streams = [p \in SiblingPaths |-> "none"]

\* No ModelCard and no InteractiveViewer is mounted.
NoCard == [mounted |-> FALSE, active |-> FALSE, pointerMap |-> 0]
NoViewer == [mounted |-> FALSE, isFullscreen |-> FALSE, entering |-> FALSE,
             exiting |-> FALSE]

\* The App component has mounted: its state is the useState defaults and
\* the effect has called fetchModels, which awaits the relative request.
InitUi ==
  /\ app = [models |-> <<>>, selectedModel |-> "null", isInteracting |-> FALSE,
            loading |-> TRUE, error |-> "null"]
  /\ run = [pc |-> "relative", log |-> <<>>, before |-> <<>>]
  /\ anims = [interact |-> {}, leaving |-> 0, returning |-> 0, mid |-> "none"]
  /\ card = NoCard
  /\ viewer = NoViewer
  /\ doc = [fullscreen |-> FALSE, blockers |-> FALSE, stale |-> FALSE,
            overflow |-> "", touches |-> 0, pointers |-> 0]

InitOthers == InitWs /\ InitApiIdle /\ InitPreIdle /\ InitUi

\* No request in flight.
NoContext == [pc |-> "idle", req |-> NoRequest, loc |-> InitLoc, res |-> InitRes,
              log |-> <<>>]

\* GET /models/:file: an empty directory, no request.
InitModels ==
  /\ now = 1
  /\ fs = [p \in Paths |-> Absent]
  /\ pc = "idle"
  /\ req = NoRequest
  /\ loc = InitLoc
  /\ res = InitRes
  /\ log = <<>>
  /\ parked = NoContext

Init == InitModels /\ InitOthers

(***************************************************************************)
(* Other processes acting on the models directory.                         *)
(***************************************************************************)
\* Time passes.
Tick ==
  /\ now < MaxClock
  /\ now' = now + 1
  /\ UNCHANGED <<fs, pc, req, loc, res, log, elsewhere>>

\* A file is placed in the directory or rewritten: a model is copied there,
\* or the precompression script writes a sibling. The directory holds the
\* files of one model at a time.
WriteFile(n, v) ==
  /\ \A p \in Paths : fs[p].exists => p[1] = n
  /\ fs' = [fs EXCEPT ![<<n, v>>] = [exists |-> TRUE, mtime |-> now, complete |-> TRUE]]
  /\ UNCHANGED <<now, pc, req, loc, res, log, elsewhere>>

\* A file is removed from the directory.
DeleteFile(n, v) ==
  /\ fs[<<n, v>>].exists
  /\ fs' = [fs EXCEPT ![<<n, v>>] = Absent]
  /\ UNCHANGED <<now, pc, req, loc, res, log, elsewhere>>

(***************************************************************************)
(* GET /models/:file                                                       *)
(***************************************************************************)
Call(op, v, ok) == [op |-> op, variant |-> v, ok |-> ok]

\* The origin callback of app.use(cors({ origin: function ... })): no Origin
\* header, a known tunnel domain, or one of the eight local origins.
OriginAllowed(o) ==
  \/ o = ""
  \/ Includes(OriginChars(o), StrDevtunnels)
  \/ Includes(OriginChars(o), StrNgrok)
  \/ Includes(OriginChars(o), StrLocaLt)
  \/ o \in AllowedOrigins

\* The headers the cors package sets on a request it lets through (it
\* reflects the request's origin and allows credentials), followed by those
\* of the middleware that sets the CORS headers dynamically.
CorsHeaders(o) ==
  LET reflected == IF o # "" THEN SetHeader(NoHeaders, "Access-Control-Allow-Origin", o)
                   ELSE NoHeaders
      h1 == SetHeader(SetHeader(reflected, "Vary", "Origin"),
                      "Access-Control-Allow-Credentials", "true")
  IN  SetHeader(SetHeader(SetHeader(h1,
        "Access-Control-Allow-Origin", IF o # "" THEN o ELSE "*"),
        "Access-Control-Allow-Methods", "GET, POST, PUT, DELETE"),
        "Access-Control-Allow-Headers", "Content-Type")

\* callback(new Error('Not allowed by CORS')): the request goes to Express's
\* default error handler, which answers 500 with an error page; no route and
\* no later middleware runs.
CorsRejected ==
  [InitRes EXCEPT !.status = 500,
                  !.headers = SetHeader(NoHeaders, "Content-Type", "text/html; charset=utf-8"),
                  !.headersSent = TRUE,
                  !.finished = TRUE,
                  !.body = TextBody("Not allowed by CORS")]

\* A request with Origin header o (absent: "") arrives and passes the
\* middleware registered before the route.
ReceiveFrom(o, n, ae, rg) ==
  /\ pc = "idle"
  /\ req' = [origin |-> o, file |-> n, acceptEnc |-> ae, range |-> rg]
  /\ loc' = InitLoc
  /\ log' = <<>>
  /\ IF OriginAllowed(o)
     THEN /\ res' = [InitRes EXCEPT !.headers = CorsHeaders(o)]
          /\ pc' = "exists"
     ELSE /\ res' = CorsRejected
          /\ pc' = "done"
  /\ UNCHANGED <<now, fs, elsewhere>>

\* A request without an Origin header arrives.
Receive(n, ae, rg) == ReceiveFrom("", n, ae, rg)

\* The answer without its status: res.send('Not found').
NotFoundMutant(ae, r) == Send(ae, r, "Not found")

\* return res.status(404).send('Not found');
NotFound(ae, r) == Send(ae, [r EXCEPT !.status = 404], "Not found")

\* if (!fs.existsSync(originalPath)) return res.status(404).send('Not found');
\* otherwise the CORS and Vary headers are set.
ExistsCheck ==
  /\ pc = "exists"
  /\ log' = Append(log, Call("existsSync", "glb", ExistsSync(fs, <<req.file, "glb">>)))
  /\ IF ~ExistsSync(fs, <<req.file, "glb">>)
     THEN /\ res' = NotFound(req.acceptEnc, res)
          /\ pc' = "done"
     ELSE /\ res' = [res EXCEPT !.headers =
                       SetHeader(SetHeader(res.headers,
                         "Access-Control-Allow-Origin", "*"),
                         "Vary", "Accept-Encoding")]
          /\ pc' = "selectBr"
  /\ UNCHANGED <<now, fs, req, loc, elsewhere>>

\* req.headers['accept-encoding'] || ''
AcceptEnc(r) == IF Truthy(r.acceptEnc) THEN r.acceptEnc ELSE <<>>

\* A comparison with the whole header value instead of a substring test.
WantsBrMutant(ae) == ae = StrBr

\* acceptEnc.includes('br')
WantsBr(ae) == Includes(ae, StrBr)

\* The brotli test repeated in the gzip branch.
WantsGzipMutant(ae) == Includes(ae, StrBr)

\* acceptEnc.includes('gzip')
WantsGzip(ae) == Includes(ae, StrGzip)

\* if (acceptEnc.includes('br') && fs.existsSync(`${originalPath}.br`))
SelectBr ==
  /\ pc = "selectBr"
  /\ IF WantsBr(AcceptEnc(req))
     THEN /\ log' = Append(log, Call("existsSync", "br", ExistsSync(fs, <<req.file, "br">>)))
          /\ IF ExistsSync(fs, <<req.file, "br">>)
             THEN /\ loc' = [loc EXCEPT !.chosen = "br", !.contentEncoding = "br"]
                  /\ pc' = "stat"
             ELSE /\ pc' = "selectGz"
                  /\ UNCHANGED loc
     ELSE /\ pc' = "selectGz"
          /\ UNCHANGED <<loc, log>>
  /\ UNCHANGED <<now, fs, req, res, elsewhere>>

\* else if (acceptEnc.includes('gzip') && fs.existsSync(`${originalPath}.gz`))
SelectGz ==
  /\ pc = "selectGz"
  /\ IF WantsGzip(AcceptEnc(req))
     THEN /\ log' = Append(log, Call("existsSync", "gz", ExistsSync(fs, <<req.file, "gz">>)))
          /\ IF ExistsSync(fs, <<req.file, "gz">>)
             THEN loc' = [loc EXCEPT !.chosen = "gz", !.contentEncoding = "gzip"]
             ELSE UNCHANGED loc
     ELSE UNCHANGED <<loc, log>>
  /\ pc' = "stat"
  /\ UNCHANGED <<now, fs, req, res, elsewhere>>

\* const parts = range.replace(/bytes=/, '').split('-');
RangeParts(range) == Split(RemoveFirst(range, StrBytesEq), "-")

\* const start = parseInt(parts[0], 10);
RangeStart(range) == ParseInt(RangeParts(range)[1])

\* const end = parts[1] ? parseInt(parts[1], 10) : total - 1;
RangeEnd(range, total) ==
  LET parts == RangeParts(range)
  IN  IF Len(parts) >= 2 /\ parts[2] # <<>> THEN ParseInt(parts[2])
      ELSE [nan |-> FALSE, val |-> total - 1]

\* The test without its check of the end bound.
RangeRejectedMutant(start, end) == IsNaN(start) \/ start.val > end.val

\* if (Number.isNaN(start) || Number.isNaN(end) || start > end)
RangeRejected(start, end) ==
  IsNaN(start) \/ IsNaN(end) \/ start.val > end.val

\* Caching: long cache for files named optimized, shorter for others.
\* /-optimized/.test(fileName) ? one year, immutable : one day, for a file
\* name given by its characters.
CacheControlFor(fileName) ==
  IF Includes(fileName, StrOptimized)
  THEN "public, max-age=31536000, immutable"
  ELSE "public, max-age=86400"

\* The cache policy with the file name compared as a whole instead of
\* searched.
CacheControlMutant(n) ==
  IF NameChars(n) = StrOptimized
  THEN "public, max-age=31536000, immutable"
  ELSE "public, max-age=86400"

\* The cache policy of a response for the model n.
CacheControl(n) == CacheControlFor(NameChars(n))

\* The headers set before the Range header is looked at, with the media type
\* left to the generic binary one.
CommonHeadersMutant(h, n, contentEncoding) ==
  LET h1 == SetHeader(h, "Content-Type", "application/octet-stream")
      h2 == IF contentEncoding # "" THEN SetHeader(h1, "Content-Encoding", contentEncoding)
            ELSE h1
  IN  SetHeader(h2, "Cache-Control", CacheControl(n))

\* The headers set before the Range header is looked at.
CommonHeaders(h, n, contentEncoding) ==
  LET h1 == SetHeader(h, "Content-Type", "model/gltf-binary")
      h2 == IF contentEncoding # "" THEN SetHeader(h1, "Content-Encoding", contentEncoding)
            ELSE h1
  IN  SetHeader(h2, "Cache-Control", CacheControl(n))

\* The headers of a partial response.
RangeHeadersOut(h, start, end, total) ==
  SetHeader(SetHeader(SetHeader(h,
    "Content-Range", ContentRange(start, end, total)),
    "Accept-Ranges", "bytes"),
    "Content-Length", (end - start) + 1)

\* The headers of a full response.
FullHeadersOut(h, total) ==
  SetHeader(SetHeader(h, "Accept-Ranges", "bytes"), "Content-Length", total)

\* The catch block without its status: res.send('Server error').
ServerErrorMutant(ae, r) == Send(ae, r, "Server error")

\* catch (err) { console.error(...); res.status(500).send('Server error'); }
ServerError(ae, r) == Send(ae, [r EXCEPT !.status = 500], "Server error")

\* The try block up to the creation of the read stream: fs.statSync, the
\* headers, the Range header; a throw of statSync is answered with
\* res.status(500).send('Server error').
Stat ==
  /\ pc = "stat"
  /\ LET p     == <<req.file, loc.chosen>>
         ok    == fs[p].exists
         total == FileSize[p]
         h     == CommonHeaders(res.headers, req.file, loc.contentEncoding)
         start == RangeStart(req.range)
         end   == RangeEnd(req.range, total)
     IN  IF ~ok
         THEN /\ log' = log \o <<Call("statSync", loc.chosen, FALSE),
                                 Call("console.error", loc.chosen, TRUE)>>
              /\ res' = ServerError(req.acceptEnc, res)
              /\ pc' = "done"
              /\ UNCHANGED loc
         ELSE IF Truthy(req.range)
         THEN IF RangeRejected(start, end)
              THEN /\ log' = Append(log, Call("statSync", loc.chosen, TRUE))
                   /\ res' = End(req.acceptEnc,
                               [res EXCEPT !.status = 416,
                                  !.headers = SetHeader(h, "Content-Range",
                                                        ContentRangeStar(total))])
                   /\ loc' = [loc EXCEPT !.total = total]
                   /\ pc' = "done"
              ELSE /\ log' = log \o <<Call("statSync", loc.chosen, TRUE),
                                      Call("createReadStream", loc.chosen, TRUE)>>
                   /\ res' = [res EXCEPT !.status = 206,
                                !.headers = RangeHeadersOut(h, start.val, end.val, total)]
                   /\ loc' = [loc EXCEPT !.total = total, !.start = start.val,
                                         !.end = end.val]
                   /\ pc' = "opening"
         ELSE /\ log' = log \o <<Call("statSync", loc.chosen, TRUE),
                                 Call("createReadStream", loc.chosen, TRUE)>>
              /\ res' = [res EXCEPT !.headers = FullHeadersOut(h, total)]
              /\ loc' = [loc EXCEPT !.total = total]
              /\ pc' = "opening"
  /\ UNCHANGED <<now, fs, req, elsewhere>>

\* The read stream opens the file: on success 'open' fires and the stream is
\* piped into the response; on failure 'error' fires and the handler calls
\* res.sendStatus(500).
StreamOpen ==
  /\ pc = "opening"
  /\ IF fs[<<req.file, loc.chosen>>].exists
     THEN /\ log' = Append(log, Call("open", loc.chosen, TRUE))
          /\ pc' = "piping"
          /\ UNCHANGED res
     ELSE /\ log' = log \o <<Call("open", loc.chosen, FALSE),
                             Call("console.error", loc.chosen, TRUE)>>
          /\ res' = SendStatus(req.acceptEnc, res, 500, "Internal Server Error")
          /\ pc' = "done"
  /\ UNCHANGED <<now, fs, req, loc, elsewhere>>

\* The read stream emits 'error' after it was opened (an I/O error while
\* reading): the handler logs it and calls res.sendStatus(500). Once the
\* headers are written, sendStatus throws (headers cannot be set any more)
\* inside the event listener, and the uncaught exception ends the process.
ReadError ==
  /\ pc \in {"piping", "streaming"}
  /\ log' = log \o <<Call("read", loc.chosen, FALSE),
                     Call("console.error", loc.chosen, TRUE)>>
  /\ IF ~res.headersSent
     THEN /\ res' = SendStatus(req.acceptEnc, res, 500, "Internal Server Error")
          /\ pc' = "done"
     ELSE /\ pc' = "crashed"
          /\ UNCHANGED res
  /\ UNCHANGED <<now, fs, req, loc, elsewhere>>

\* The pipe writes to the response for the first time (or ends it, when
\* there is nothing to read): the headers are written.
PipeHead ==
  /\ pc = "piping"
  /\ res' = WriteHead(req.acceptEnc, res, FALSE, 0)
  /\ pc' = "streaming"
  /\ UNCHANGED <<now, fs, req, loc, log, elsewhere>>

\* The bytes the read stream delivers: start..end of the file, cut at its
\* last byte; the whole file when no range was given.
StreamedBody(r, l, coding) ==
  LET p    == <<r.file, l.chosen>>
      last == FileSize[p] - 1
  IN  IF Truthy(r.range)
      THEN FileBody(p, l.start, IF l.end < last THEN l.end ELSE last, coding)
      ELSE FileBody(p, 0, last, coding)

\* The pipe has passed every byte and ends the response.
PipeEnd ==
  /\ pc = "streaming"
  /\ res' = [res EXCEPT !.body = StreamedBody(req, loc, res.coding),
                        !.finished = TRUE]
  /\ pc' = "done"
  /\ UNCHANGED <<now, fs, req, loc, log, elsewhere>>

\* The response has been delivered: the request and response objects are
\* dropped, nothing of them is kept for the next request.
Close ==
  /\ pc = "done"
  /\ pc' = "idle"
  /\ req' = NoRequest
  /\ loc' = InitLoc
  /\ res' = InitRes
  /\ log' = <<>>
  /\ UNCHANGED <<now, fs, elsewhere>>

Next ==
  \/ Tick
  \/ \E n \in Names, v \in Variants : WriteFile(n, v)
  \/ \E n \in Names, v \in Variants : DeleteFile(n, v)
  \/ \E n \in Names, ae \in AcceptEncodings, rg \in RangeHeaders : Receive(n, ae, rg)
  \/ ExistsCheck
  \/ SelectBr
  \/ SelectGz
  \/ Stat
  \/ StreamOpen
  \/ ReadError
  \/ PipeHead
  \/ PipeEnd
  \/ Close

Spec == Init /\ [][Next]_vars

(***************************************************************************)
(* The same server, taking requests with and without an Origin header.     *)
(***************************************************************************)
FewRangeHeaders ==
  { Undefined,
    <<"b", "y", "t", "e", "s", "=", "0", "-", "1">>,
    <<"b", "y", "t", "e", "s", "=", "2", "-", "1">> }

NextOrigin ==
  \/ \E v \in Variants : WriteFile("chair-optimized.glb", v)
  \/ \E v \in Variants : DeleteFile("chair-optimized.glb", v)
  \/ \E o \in Origins \cup {""}, n \in Names, ae \in {Undefined, StrBr},
        rg \in FewRangeHeaders :
       ReceiveFrom(o, n, ae, rg)
  \/ ExistsCheck
  \/ SelectBr
  \/ SelectGz
  \/ Stat
  \/ StreamOpen
  \/ ReadError
  \/ PipeHead
  \/ PipeEnd
  \/ Close

SpecOrigin == Init /\ [][NextOrigin]_vars

(***************************************************************************)
(* Two requests in flight over a directory that does not change. The       *)
(* handler runs synchronously from the existence check to the creation of  *)
(* the read stream; the event loop can turn to the other request before a  *)
(* request arrives, while a stream waits for 'open' or for its data, and   *)
(* after a response is complete.                                           *)
(***************************************************************************)
SwitchPoints == {"idle", "opening", "piping", "streaming", "done"}

\* The event loop turns to the other request, the handler's locals being
\* kept in one place for both.
SwitchMutant ==
  /\ pc \in SwitchPoints
  /\ parked' = [pc |-> pc, req |-> req, loc |-> loc, res |-> res, log |-> log]
  /\ pc' = parked.pc
  /\ req' = parked.req
  /\ res' = parked.res
  /\ log' = parked.log
  /\ UNCHANGED <<now, fs, loc, others>>

\* The event loop turns to the other request: each invocation of the handler
\* has its own req, res and locals (const/let inside the arrow function).
Switch ==
  /\ pc \in SwitchPoints
  /\ parked' = [pc |-> pc, req |-> req, loc |-> loc, res |-> res, log |-> log]
  /\ pc' = parked.pc
  /\ req' = parked.req
  /\ loc' = parked.loc
  /\ res' = parked.res
  /\ log' = parked.log
  /\ UNCHANGED <<now, fs, others>>

\* The directories requests are served from: any of the three files of
\* chair-optimized.glb present, lamp.glb absent.
Directories ==
  { [p \in Paths |-> IF p[1] = "chair-optimized.glb" /\ p[2] \in S
                     THEN [exists |-> TRUE, mtime |-> 1, complete |-> TRUE] ELSE Absent] :
      S \in SUBSET Variants }

InitPair ==
  /\ now = 1
  /\ fs \in Directories
  /\ pc = "idle"
  /\ req = NoRequest
  /\ loc = InitLoc
  /\ res = InitRes
  /\ log = <<>>
  /\ parked = NoContext
  /\ InitOthers

NextPair ==
  \/ \E n \in Names, ae \in {Undefined, StrBr}, rg \in FewRangeHeaders :
       Receive(n, ae, rg)
  \/ ExistsCheck
  \/ SelectBr
  \/ SelectGz
  \/ Stat
  \/ StreamOpen
  \/ PipeHead
  \/ PipeEnd
  \/ Close
  \/ Switch

SpecPair == InitPair /\ [][NextPair]_vars

(***************************************************************************)
(* The WebSocket server: every message received from a socket is relayed   *)
(* to the other sockets.                                                   *)
(***************************************************************************)
\* wss.on('connection', ws => ...): a socket joins wss.clients, OPEN.
Connect(c) ==
  /\ clients[c] = "none"
  /\ clients' = [clients EXCEPT ![c] = "OPEN"]
  /\ UNCHANGED <<modelVars, sent, inbox, apiVars, preVars, uiVars>>

\* A closing handshake starts: the socket stays in wss.clients, CLOSING.
StartClose(c) ==
  /\ clients[c] = "OPEN"
  /\ clients' = [clients EXCEPT ![c] = "CLOSING"]
  /\ UNCHANGED <<modelVars, sent, inbox, apiVars, preVars, uiVars>>

\* ws.on('close'): the socket has left wss.clients.
Closed(c) ==
  /\ clients[c] = "CLOSING"
  /\ clients' = [clients EXCEPT ![c] = "none"]
  /\ UNCHANGED <<modelVars, sent, inbox, apiVars, preVars, uiVars>>

\* The test of the broadcast loop without the comparison with the sender.
RelayedToMutant(ws, client) == clients[client] = "OPEN"

\* if (client !== ws && client.readyState === WebSocket.OPEN)
RelayedTo(ws, client) == client # ws /\ clients[client] = "OPEN"

\* ws.on('message', message => wss.clients.forEach(client => ...)): one
\* client.send(message) for each socket of wss.clients that passes the test.
OnMessage(ws, message) ==
  /\ clients[ws] # "none"
  /\ Len(inbox) < MaxMessages
  /\ inbox' = Append(inbox, [from |-> ws, message |-> message])
  /\ sent' = [client \in Clients |->
               IF clients[client] # "none" /\ RelayedTo(ws, client)
               THEN Append(sent[client], message)
               ELSE sent[client]]
  /\ UNCHANGED <<modelVars, clients, apiVars, preVars, uiVars>>

NextWs ==
  \/ \E c \in Clients : Connect(c)
  \/ \E c \in Clients : StartClose(c)
  \/ \E c \in Clients : Closed(c)
  \/ \E c \in Clients, m \in Messages : OnMessage(c, m)

SpecWs == Init /\ [][NextWs]_vars

(***************************************************************************)
(* GET /api/models: the listing of the models directory.                   *)
(***************************************************************************)
UpperCase == <<"A", "B", "C", "D", "E", "F", "G", "H", "I", "J", "K", "L", "M",
               "N", "O", "P", "Q", "R", "S", "T", "U", "V", "W", "X", "Y", "Z">>
LowerCase == <<"a", "b", "c", "d", "e", "f", "g", "h", "i", "j", "k", "l", "m",
               "n", "o", "p", "q", "r", "s", "t", "u", "v", "w", "x", "y", "z">>

\* String.prototype.toLowerCase
ToLowerCase(s) ==
  [i \in 1..Len(s) |->
     IF \E k \in 1..Len(UpperCase) : UpperCase[k] = s[i]
     THEN LowerCase[CHOOSE k \in 1..Len(UpperCase) : UpperCase[k] = s[i]]
     ELSE s[i]]

\* String.prototype.endsWith
EndsWith(s, suffix) ==
  /\ Len(s) >= Len(suffix)
  /\ SubSeq(s, Len(s) - Len(suffix) + 1, Len(s)) = suffix

StrDotGlb == <<".", "g", "l", "b">>
StrOptimizedDraco == <<"-", "o", "p", "t", "i", "m", "i", "z", "e", "d", "-", "d", "r", "a", "c", "o">>
StrModelsSlash == <<"/", "m", "o", "d", "e", "l", "s", "/">>

\* The file names a directory may hold: models in lower and upper case,
\* flagged and not, a file of another type and a pre-compressed sibling.
DirNames ==
  { <<"a", ".", "g", "l", "b">>,
    <<"b", "-", "o", "p", "t", "i", "m", "i", "z", "e", "d", ".", "g", "l", "b">>,
    <<"C", "-", "O", "P", "T", "I", "M", "I", "Z", "E", "D", ".", "G", "L", "B">>,
    <<"d", ".", "G", "L", "B">>,
    <<"n", ".", "t", "x", "t">>,
    <<"a", ".", "g", "l", "b", ".", "g", "z">> }

\* The listings readdirSync may return: up to MaxFiles different names.
DirListings ==
  { l \in UNION {[1..n -> DirNames] : n \in 0..MaxFiles} :
      \A i, j \in 1..Len(l) : i # j => l[i] # l[j] }

\* fs.statSync(path.join(modelsDir, file)).size
DirSize(file) == 100 + Len(file)

\* files.filter(file => file.toLowerCase().endsWith('.glb'))
IsGlbFile(file) == EndsWith(ToLowerCase(file), StrDotGlb)

\* The entry .map builds for a file.
Entry(file) ==
  [name |-> file,
   path |-> StrModelsSlash \o file,
   id |-> RemoveFirst(file, StrDotGlb),
   size |-> DirSize(file),
   optimized |-> \/ Includes(ToLowerCase(file), StrOptimizedDraco)
                 \/ Includes(ToLowerCase(file), StrOptimized)]

\* The comparator with its two outcomes exchanged.
CompareMutant(a, b) ==
  IF a.optimized = b.optimized THEN 0 ELSE IF a.optimized THEN 1 ELSE 0 - 1

\* (a, b) => (a.optimized === b.optimized ? 0 : a.optimized ? -1 : 1)
Compare(a, b) ==
  IF a.optimized = b.optimized THEN 0 ELSE IF a.optimized THEN 0 - 1 ELSE 1

\* One insertion of the stable sort: x goes behind the last element that
\* does not compare greater than it.
Insert(sorted, x) ==
  LET before == {i \in 1..Len(sorted) : Compare(sorted[i], x) <= 0}
      pos    == IF before = {} THEN 0
                ELSE CHOOSE i \in before : \A k \in before : k <= i
  IN  SubSeq(sorted, 1, pos) \o <<x>> \o SubSeq(sorted, pos + 1, Len(sorted))

\* Array.prototype.sort with the comparator (a stable sort).
RECURSIVE Sort(_)
Sort(a) ==
  IF a = <<>> THEN <<>>
  ELSE Insert(Sort(SubSeq(a, 1, Len(a) - 1)), a[Len(a)])

\* The array the handler builds from a listing.
GlbFiles(listing) ==
  LET raw == SelectSeq(listing, IsGlbFile)
  IN  Sort([i \in 1..Len(raw) |-> Entry(raw[i])])

InitApi ==
  /\ InitModels
  /\ InitWs
  /\ InitPreIdle
  /\ InitUi
  /\ files \in DirListings
  /\ models = NoListing
  /\ info = NoInfo

\* app.get('/api/models'): res.json(glbFiles), or the catch block when
\* statSync throws because a listed model was removed after readdirSync.
GetApiModels(removed) ==
  /\ ~models.sent
  /\ removed => \E i \in 1..Len(files) : IsGlbFile(files[i])
  /\ models' = IF removed
               THEN [sent |-> TRUE, status |-> 500, json |-> <<>>,
                     error |-> "Failed to read models directory"]
               ELSE [sent |-> TRUE, status |-> 200, json |-> GlbFiles(files),
                     error |-> ""]
  /\ UNCHANGED <<modelVars, wsVars, files, info, preVars, uiVars>>

\* stats.mtime of a listed file: every file of the directory was placed
\* there at the time the clock starts from.
DirModified(file) == 1

\* The ids a client asks for: those of the entries it was given, and one
\* that names no file.
RequestedIds ==
  {models.json[i].id : i \in 1..Len(models.json)} \cup {<<"z">>}

\* app.get('/api/models/:id'): 404 unless `${id}.glb` exists, else the
\* model's record.
GetApiModel(id) ==
  /\ models.sent
  /\ ~info.sent
  /\ LET fileName == id \o StrDotGlb
     IN  info' = IF \E i \in 1..Len(files) : files[i] = fileName
                 THEN [sent |-> TRUE, id |-> id, status |-> 200,
                       json |-> [name |-> fileName,
                                 path |-> StrModelsSlash \o fileName,
                                 id |-> id,
                                 size |-> DirSize(fileName),
                                 modified |-> DirModified(fileName)],
                       error |-> ""]
                 ELSE [sent |-> TRUE, id |-> id, status |-> 404, json |-> NoModel,
                       error |-> "Model not found"]
  /\ UNCHANGED <<modelVars, wsVars, files, models, preVars, uiVars>>

NextApi ==
  \/ \E removed \in BOOLEAN : GetApiModels(removed)
  \/ \E id \in RequestedIds : GetApiModel(id)

SpecApi == InitApi /\ [][NextApi]_vars

(***************************************************************************)
(* The precompression script. Its forEach loop runs synchronously: every   *)
(* decision is taken and every write stream created before 'Precompress    *)
(* complete' is printed; the streams are written by callbacks that run     *)
(* afterwards, and the process exits when the last one has finished.       *)
(***************************************************************************)
\* fs.readdirSync(modelsDir).filter(...): the models present, in directory
\* order.
RECURSIVE Listed(_, _)
Listed(dir, names) ==
  IF names = <<>> THEN <<>>
  ELSE IF ExistsSync(dir, <<Head(names), "glb">>)
    THEN <<Head(names)>> \o Listed(dir, Tail(names))
  ELSE Listed(dir, Tail(names))

DirectoryOrder == <<"chair-optimized.glb", "lamp.glb">>

\* The test with a sibling of the same age written again.
DoCompressMutant(dir, n, v) ==
  ~(ExistsSync(dir, <<n, v>>) /\ dir[<<n, v>>].mtime > dir[<<n, "glb">>].mtime)

\* let doGzip = true; if (fs.existsSync(gzPath)) { if (gzStat.mtimeMs >=
\* stat.mtimeMs) doGzip = false; }  (the same for brotli)
DoCompress(dir, n, v) ==
  ~(ExistsSync(dir, <<n, v>>) /\ dir[<<n, v>>].mtime >= dir[<<n, "glb">>].mtime)

\* The script starts: the directory is listed.
ScriptStart ==
  /\ script.pc \in {"off", "exited"}
  /\ script.run < MaxRuns
  /\ script' = [pc |-> "running", queue |-> Listed(fs, DirectoryOrder),
                run |-> script.run + 1, printed |-> FALSE]
  /\ streams' = [p \in SiblingPaths |-> "none"]
  /\ UNCHANGED <<now, fs, requestVars, wsVars, apiVars, uiVars>>

\* One turn of files.forEach: the file is stat-ed and a write stream is
\* created for each sibling that is to be written. A file removed since the
\* listing makes statSync throw outside any try block.
ProcessFile ==
  /\ script.pc = "running"
  /\ script.queue # <<>>
  /\ LET n == Head(script.queue)
     IN  IF ~ExistsSync(fs, <<n, "glb">>)
         THEN /\ script' = [script EXCEPT !.pc = "crashed"]
              /\ UNCHANGED streams
         ELSE /\ script' = [script EXCEPT !.queue = Tail(script.queue)]
              /\ streams' = [p \in SiblingPaths |->
                               IF p[1] = n /\ DoCompress(fs, n, p[2])
                               THEN "created" ELSE streams[p]]
  /\ UNCHANGED <<now, fs, requestVars, wsVars, apiVars, uiVars>>

\* The write streams of this run that have not finished.
Unfinished(st) == {p \in SiblingPaths : st[p] \in {"created", "open"}}

\* console.log('Precompress complete'), at the end of the synchronous part.
PrintComplete ==
  /\ script.pc = "running"
  /\ script.queue = <<>>
  /\ script' = [script EXCEPT !.printed = TRUE,
                              !.pc = IF Unfinished(streams) = {} THEN "exited"
                                     ELSE "draining"]
  /\ UNCHANGED <<now, fs, requestVars, streams, wsVars, apiVars, uiVars>>

\* fs.createWriteStream(path) opens its file: the sibling is created, or
\* truncated, and has no content yet.
OpenOut(p) ==
  /\ script.pc \in {"running", "draining"}
  /\ streams[p] = "created"
  /\ streams' = [streams EXCEPT ![p] = "open"]
  /\ fs' = [fs EXCEPT ![p] = [exists |-> TRUE, mtime |-> now, complete |-> FALSE]]
  /\ UNCHANGED <<now, requestVars, script, wsVars, apiVars, uiVars>>

\* out.on('finish'): the compressed bytes are all written. Callbacks run
\* only after the synchronous part of the script has ended.
FinishOut(p) ==
  /\ script.pc = "draining"
  /\ streams[p] = "open"
  /\ streams' = [streams EXCEPT ![p] = "finished"]
  /\ fs' = [fs EXCEPT ![p] = [exists |-> TRUE, mtime |-> now, complete |-> TRUE]]
  /\ script' = [script EXCEPT !.pc = IF Unfinished(streams') = {} THEN "exited"
                                     ELSE "draining"]
  /\ UNCHANGED <<now, requestVars, wsVars, apiVars, uiVars>>

\* The directories the script may find: chair-optimized.glb with each of
\* its siblings absent, older, or of the same age or newer; lamp.glb absent
\* or present without siblings.
ScriptDirectories ==
  { [p \in Paths |->
       IF p[1] = "chair-optimized.glb"
       THEN IF p[2] = "glb" THEN [exists |-> TRUE, mtime |-> c, complete |-> TRUE]
            ELSE IF p[2] = "gz"
              THEN IF g < 0 THEN Absent
                   ELSE [exists |-> TRUE, mtime |-> g, complete |-> TRUE]
            ELSE IF b < 0 THEN Absent
                 ELSE [exists |-> TRUE, mtime |-> b, complete |-> TRUE]
       ELSE IF p[2] = "glb" /\ l THEN [exists |-> TRUE, mtime |-> 1, complete |-> TRUE]
            ELSE Absent] :
      c \in 0..1, g \in (0 - 1)..1, b \in (0 - 1)..1, l \in BOOLEAN }

InitPre ==
  /\ now = 1
  /\ fs \in ScriptDirectories
  /\ pc = "idle"
  /\ req = NoRequest
  /\ loc = InitLoc
  /\ res = InitRes
  /\ log = <<>>
  /\ parked = NoContext
  /\ InitOthers

NextPre ==
  \/ Tick
  \/ ScriptStart
  \/ ProcessFile
  \/ PrintComplete
  \/ \E p \in SiblingPaths : OpenOut(p)
  \/ \E p \in SiblingPaths : FinishOut(p)

SpecPre == InitPre /\ [][NextPre]_vars

(***************************************************************************)
(* The server answering requests for chair-optimized.glb while the         *)
(* precompression script runs on the same directory.                       *)
(***************************************************************************)
NextPreServe ==
  \/ ScriptStart
  \/ ProcessFile
  \/ PrintComplete
  \/ \E p \in SiblingPaths : OpenOut(p)
  \/ \E p \in SiblingPaths : FinishOut(p)
  \/ \E ae \in {StrBr, StrGzip} : Receive("chair-optimized.glb", ae, Undefined)
  \/ ExistsCheck
  \/ SelectBr
  \/ SelectGz
  \/ Stat
  \/ StreamOpen
  \/ ReadError
  \/ PipeHead
  \/ PipeEnd
  \/ Close

SpecPreServe == InitPre /\ [][NextPreServe]_vars

(***************************************************************************)
(* The React front end: the App component with its grid of ModelCards and  *)
(* its InteractiveViewer. Handlers and callbacks run one at a time; a      *)
(* state is what a render sees.                                            *)
(***************************************************************************)
\* What the steps of the front end leave alone.
backend == <<modelVars, wsVars, apiVars, preVars>>

\* The branches of App's render.
GridShown(a) == ~a.loading /\ a.error = "null" /\ ~a.isInteracting
CardShown(a) == GridShown(a) /\ a.models # <<>>
ViewerShown(a) == ~a.loading /\ a.error = "null" /\ a.isInteracting

\* A ModelCard or an InteractiveViewer as it mounts.
NewCard == [NoCard EXCEPT !.mounted = TRUE]
NewViewer == [NoViewer EXCEPT !.mounted = TRUE]

\* App renders with state a and React commits: components that are no
\* longer rendered unmount (their refs and state are dropped, and a
\* fullscreen element that leaves the page ends fullscreen), components
\* rendered for the first time mount. c, v and d are the card, the viewer
\* and the document as the handler left them. The cleanup of the card's
\* gesture effect detaches the listeners of its own elements only: document
\* listeners the card registered stay registered, now out of the reach of
\* any later removeEventListener (doc.stale).
Commit(a, c, v, d) ==
  /\ app' = a
  /\ card' = IF CardShown(a) THEN (IF c.mounted THEN c ELSE NewCard) ELSE NoCard
  /\ viewer' = IF ViewerShown(a) THEN (IF v.mounted THEN v ELSE NewViewer)
               ELSE NoViewer
  /\ doc' = [d EXCEPT
              !.fullscreen = IF v.mounted /\ ~ViewerShown(a) THEN FALSE ELSE @,
              !.stale = IF c.mounted /\ ~CardShown(a) THEN @ \/ d.blockers ELSE @,
              !.blockers = IF c.mounted /\ ~CardShown(a) THEN FALSE ELSE @]

\* No callback is in the middle of its state updates.
Quiet == anims.mid = "none"

\* A model of the list as the backend sends it.
ListedModel(id) == [id |-> id, path |-> <<"/models/", id>>]

\* The answers a request for the list of models may get: a network or
\* status error, a string that starts with '<' once trimmed (an HTML page),
\* another string, a JSON value that is no array, an array.
Arrays == {<<>>, <<ListedModel("m1")>>, <<ListedModel("m1"), ListedModel("m2")>>}
Outcomes ==
  {[kind |-> k, data |-> <<>>] : k \in {"fail", "html", "text", "object"}}
    \cup {[kind |-> "array", data |-> d] : d \in Arrays}

\* response.data.map(model => ({...model, path: `${backendUrl}${model.path}`}))
WithFullPaths(data) ==
  [i \in 1..Len(data) |-> [data[i] EXCEPT !.path = <<"backendUrl">> \o @]]

ErrorMessage == "Failed to load 3D models."

\* The catch block without the finally block.
SettleFailedMutant(a) == [a EXCEPT !.error = ErrorMessage]

\* catch (err) { setError(...) } finally { setLoading(false) }
SettleFailed(a) == [a EXCEPT !.error = ErrorMessage, !.loading = FALSE]

\* setModels(modelsWithFullPaths); setError(null); finally setLoading(false)
SettleOk(a, data) ==
  [a EXCEPT !.models = WithFullPaths(data), !.error = "null", !.loading = FALSE]

\* The Retry button of the error screen: fetchModels starts again.
Retry ==
  /\ Quiet
  /\ ~app.loading
  /\ app.error # "null"
  /\ run.pc = "settled"
  /\ run' = [pc |-> "relative", log |-> <<>>, before |-> app.models]
  /\ Commit([app EXCEPT !.loading = TRUE], card, viewer, doc)
  /\ UNCHANGED <<backend, anims>>

\* An awaited request of fetchModels settles with outcome o. "relative":
\* axios.get('/api/models'); "direct": the request of the inner catch;
\* "fallback": the request made after an HTML answer.
Respond(o) ==
  /\ Quiet
  /\ run.pc \in {"relative", "direct", "fallback"}
  /\ LET url  == IF run.pc = "relative" THEN "relative" ELSE "direct"
         log2 == Append(run.log, [url |-> url, kind |-> o.kind, data |-> o.data])
         next == IF o.kind = "array" THEN "ok"
                 ELSE IF o.kind = "fail" /\ run.pc = "relative" THEN "direct"
                 ELSE IF o.kind = "html" /\ run.pc # "fallback" THEN "fallback"
                 ELSE "failed"
     IN  IF next \in {"direct", "fallback"}
         THEN /\ run' = [run EXCEPT !.pc = next, !.log = log2]
              /\ UNCHANGED <<app, card, viewer, doc>>
         ELSE /\ run' = [run EXCEPT !.pc = "settled", !.log = log2]
              /\ Commit(IF next = "ok" THEN SettleOk(app, o.data) ELSE SettleFailed(app),
                        card, viewer, doc)
  /\ UNCHANGED <<backend, anims>>

\* The models a card of the grid may stand for, each known by its id
\* (selectedModel holds the id of the model object it is set to).
ModelsOf(a) == {a.models[i].id : i \in 1..Len(a.models)}

\* handleInteractClick of a card: the click animation starts.
ClickInteract(m) ==
  /\ Quiet
  /\ CardShown(app)
  /\ m \in ModelsOf(app)
  /\ m \notin anims.interact
  /\ anims' = [anims EXCEPT !.interact = @ \cup {m}]
  /\ UNCHANGED <<backend, app, run, card, viewer, doc>>

\* The click animation completes: onInteract(model), that is
\* setSelectedModel(model); setIsInteracting(true). Outside a React event
\* handler the two updates are rendered together or one after the other,
\* depending on the React version.
InteractComplete(m, batched) ==
  /\ Quiet
  /\ m \in anims.interact
  /\ anims' = [anims EXCEPT !.interact = @ \ {m},
                            !.mid = IF batched THEN "none" ELSE "interact"]
  /\ Commit(IF batched THEN [app EXCEPT !.selectedModel = m, !.isInteracting = TRUE]
            ELSE [app EXCEPT !.selectedModel = m],
            card, viewer, doc)
  /\ UNCHANGED <<backend, run>>

\* handleBack of the viewer (the Back button): the leave animation starts.
ViewerBack ==
  /\ Quiet
  /\ viewer.mounted
  /\ anims.leaving < MaxAnims
  /\ anims' = [anims EXCEPT !.leaving = @ + 1]
  /\ UNCHANGED <<backend, app, run, card, viewer, doc>>

\* handleBackToGrid: the animation of the return to the grid starts.
HandleBackToGrid == [anims EXCEPT !.returning = @ + 1]

\* The leave animation completes: onBack(), that is handleBackToGrid, which
\* starts the animation of the return to the grid.
LeaveComplete ==
  /\ Quiet
  /\ anims.leaving > 0
  /\ anims.returning < MaxAnims
  /\ anims' = [HandleBackToGrid EXCEPT !.leaving = @ - 1]
  /\ UNCHANGED <<backend, app, run, card, viewer, doc>>

\* The first update of the callback of handleBackToGrid, taken from its
\* second line.
FirstOfBackMutant(a) == [a EXCEPT !.selectedModel = "null"]

\* complete: () => { setIsInteracting(false); ... }
FirstOfBack(a) == [a EXCEPT !.isInteracting = FALSE]

\* complete: () => { ...; setSelectedModel(null); }
SecondOfBack(a) == [a EXCEPT !.selectedModel = "null"]

\* The animation of handleBackToGrid completes.
ReturnComplete(batched) ==
  /\ Quiet
  /\ anims.returning > 0
  /\ anims' = [anims EXCEPT !.returning = @ - 1,
                            !.mid = IF batched THEN "none" ELSE "back"]
  /\ Commit(IF batched THEN SecondOfBack(FirstOfBack(app)) ELSE FirstOfBack(app),
            card, viewer, doc)
  /\ UNCHANGED <<backend, run>>

\* The second update of a callback whose updates are rendered one by one.
SecondUpdate ==
  /\ anims.mid # "none"
  /\ anims' = [anims EXCEPT !.mid = "none"]
  /\ Commit(IF anims.mid = "back" THEN SecondOfBack(app)
            ELSE [app EXCEPT !.isInteracting = TRUE],
            card, viewer, doc)
  /\ UNCHANGED <<backend, run>>

\* toggleFullscreen (the button, or the f and F keys): a request to enter
\* fullscreen when isFullscreen is false, document.exitFullscreen() when it
\* is true.
ToggleFullscreen ==
  /\ Quiet
  /\ viewer.mounted
  /\ viewer' = IF ~viewer.isFullscreen THEN [viewer EXCEPT !.entering = TRUE]
               ELSE [viewer EXCEPT !.exiting = TRUE]
  /\ UNCHANGED <<backend, app, run, anims, card, doc>>

\* The promise of requestFullscreen() settles: granted, the document is in
\* fullscreen and .then runs setIsFullscreen(true); rejected, nothing runs.
EnterSettles(granted) ==
  /\ Quiet
  /\ viewer.mounted
  /\ viewer.entering
  /\ viewer' = [viewer EXCEPT !.entering = FALSE,
                              !.isFullscreen = IF granted THEN TRUE ELSE @]
  /\ doc' = [doc EXCEPT !.fullscreen = IF granted THEN TRUE ELSE @]
  /\ UNCHANGED <<backend, app, run, anims, card>>

\* The promise of document.exitFullscreen() settles: it resolves when the
\* document was in fullscreen, and .then runs setIsFullscreen(false); it
\* rejects when the document was not, and nothing runs.
ExitSettles ==
  /\ Quiet
  /\ viewer.mounted
  /\ viewer.exiting
  /\ viewer' = [viewer EXCEPT !.exiting = FALSE,
                              !.isFullscreen = IF doc.fullscreen THEN FALSE ELSE @]
  /\ doc' = [doc EXCEPT !.fullscreen = FALSE]
  /\ UNCHANGED <<backend, app, run, anims, card>>

\* The browser ends fullscreen itself (its own Escape handling, a switch of
\* tab or window). The component listens to no fullscreenchange event.
BrowserLeavesFullscreen ==
  /\ Quiet
  /\ doc.fullscreen
  /\ doc' = [doc EXCEPT !.fullscreen = FALSE]
  /\ UNCHANGED <<backend, app, run, anims, card, viewer>>

\* handleKeyPress, case 'Escape', delivered to the page: exitFullscreen()
\* when isFullscreen, which calls document.exitFullscreen() only if
\* document.fullscreenElement is set; onBack() otherwise.
Escape ==
  /\ Quiet
  /\ viewer.mounted
  /\ IF viewer.isFullscreen
     THEN /\ viewer' = [viewer EXCEPT !.exiting = @ \/ doc.fullscreen]
          /\ UNCHANGED anims
     ELSE /\ anims.returning < MaxAnims
          /\ anims' = HandleBackToGrid
          /\ UNCHANGED viewer
  /\ UNCHANGED <<backend, app, run, card, doc>>

\* A finger touches the screen. On a mounted card onTouchStart runs with
\* e.touches holding every finger on the screen.
TouchStart ==
  /\ Quiet
  /\ doc.touches < MaxContacts
  /\ LET n == doc.touches + 1
         pinch == card.mounted /\ n = 2
     IN  /\ card' = IF pinch THEN [card EXCEPT !.active = TRUE] ELSE card
         /\ doc' = IF pinch
                   THEN [doc EXCEPT !.touches = n, !.blockers = TRUE, !.overflow = "hidden"]
                   ELSE [doc EXCEPT !.touches = n]
  /\ UNCHANGED <<backend, app, run, anims, viewer>>

\* A finger leaves the screen (touchend or touchcancel). On a mounted card
\* onTouchEnd runs.
TouchEnd ==
  /\ Quiet
  /\ doc.touches > 0
  /\ LET n == doc.touches - 1
         ends == card.mounted /\ card.active /\ n < 2
     IN  /\ card' = IF ends THEN [card EXCEPT !.active = FALSE] ELSE card
         /\ doc' = IF ends
                   THEN [doc EXCEPT !.touches = n, !.blockers = FALSE, !.overflow = ""]
                   ELSE [doc EXCEPT !.touches = n]
  /\ UNCHANGED <<backend, app, run, anims, viewer>>

\* A pointer goes down. On a mounted card onPointerDown runs and tracks it
\* in pointerMap.
PointerDown ==
  /\ Quiet
  /\ doc.pointers < MaxContacts
  /\ LET size == card.pointerMap + 1
         pinch == card.mounted /\ size = 2
     IN  /\ card' = IF card.mounted
                    THEN [card EXCEPT !.pointerMap = size, !.active = pinch \/ @]
                    ELSE card
         /\ doc' = IF pinch
                   THEN [doc EXCEPT !.pointers = @ + 1, !.blockers = TRUE,
                                    !.overflow = "hidden"]
                   ELSE [doc EXCEPT !.pointers = @ + 1]
  /\ UNCHANGED <<backend, app, run, anims, viewer>>

\* A pointer goes up (pointerup or pointercancel). On a mounted card
\* onPointerUp runs, whether pointerMap tracks the pointer or not.
PointerUp(tracked) ==
  /\ Quiet
  /\ doc.pointers > 0
  /\ IF tracked THEN card.mounted /\ card.pointerMap > 0
     ELSE doc.pointers > card.pointerMap
  /\ LET size == IF tracked THEN card.pointerMap - 1 ELSE card.pointerMap
         ends == card.mounted /\ card.active /\ size < 2
     IN  /\ card' = IF card.mounted
                    THEN [card EXCEPT !.pointerMap = size, !.active = @ /\ ~ends]
                    ELSE card
         /\ doc' = IF ends
                   THEN [doc EXCEPT !.pointers = @ - 1, !.blockers = FALSE,
                                    !.overflow = ""]
                   ELSE [doc EXCEPT !.pointers = @ - 1]
  /\ UNCHANGED <<backend, app, run, anims, viewer>>

NextUi ==
  \/ Retry
  \/ \E o \in Outcomes : Respond(o)
  \/ \E m \in ModelsOf(app) : ClickInteract(m)
  \/ \E m \in anims.interact, batched \in BOOLEAN : InteractComplete(m, batched)
  \/ ViewerBack
  \/ LeaveComplete
  \/ \E batched \in BOOLEAN : ReturnComplete(batched)
  \/ SecondUpdate
  \/ ToggleFullscreen
  \/ \E granted \in BOOLEAN : EnterSettles(granted)
  \/ ExitSettles
  \/ BrowserLeavesFullscreen
  \/ Escape
  \/ TouchStart
  \/ TouchEnd
  \/ PointerDown
  \/ \E tracked \in BOOLEAN : PointerUp(tracked)

SpecUi == Init /\ [][NextUi]_vars

\* The last answer a run of fetchModels got.
LastAnswer == run.log[Len(run.log)]

\* C27: once a run of fetchModels has settled, loading is false and exactly
\* one of two outcomes holds: error is null and models is the fetched array
\* (its paths completed), or error is a non-empty message and models is what
\* it was when the run started; and a request to the backend's own address
\* was made only after the first, relative request failed or answered with
\* an HTML string.
C27_FetchSettlesOneWay ==
  run.pc = "settled" =>
    /\ ~app.loading
    /\ \/ /\ app.error = "null"
          /\ LastAnswer.kind = "array"
          /\ app.models = WithFullPaths(LastAnswer.data)
       \/ /\ app.error \notin {"null", ""}
          /\ LastAnswer.kind # "array"
          /\ app.models = run.before
    /\ \A i \in 1..Len(run.log) :
         run.log[i].url = "direct" =>
           /\ i > 1
           /\ run.log[1].url = "relative"
           /\ run.log[1].kind \in {"fail", "html"}

\* A run that went through all three requests (the relative one failed, the
\* direct one answered with HTML, the fallback one with an array) and
\* replaced the list.
C27_Witness ==
  /\ run.pc = "settled"
  /\ Len(run.log) = 3
  /\ app.error = "null"
  /\ app.models # <<>>
  /\ app.models # run.before

\* C28: in every state the App component renders, isInteracting implies
\* that selectedModel is not null: the InteractiveViewer is never rendered
\* with a null model.
C28_ViewerHasModel ==
  /\ app.isInteracting => app.selectedModel # "null"
  /\ viewer.mounted => app.selectedModel # "null"

\* The render between the two updates of the callback of handleBackToGrid,
\* where the order of the updates shows.
C28_Witness ==
  /\ anims.mid = "back"
  /\ ~app.isInteracting
  /\ app.selectedModel # "null"

C30_IsFullscreenTracksDocument ==
  viewer.mounted => (viewer.isFullscreen <=> doc.fullscreen)

(***************************************************************************)
(* Properties of GET /models/:file.                                        *)
(***************************************************************************)
\* The file system call op on variant v was made for this request and
\* succeeded (ok) or failed.
Observed(op, v, ok) == \E i \in 1..Len(log) : log[i] = Call(op, v, ok)

\* The response is complete and its body came from the read stream.
Streamed ==
  /\ pc = "done"
  /\ Observed("open", loc.chosen, TRUE)
  /\ ~Observed("read", loc.chosen, FALSE)

\* The request carries a Range header with a value.
HasRange == req.range # Undefined /\ req.range # <<>>

\* The bounds written in the Range header, as parseInt reads them; the end
\* is the last byte of the selected file when it is left out.
BoundTokens == Split(RemoveFirst(req.range, StrBytesEq), "-")

StartBound == ParseInt(BoundTokens[1])

EndBound ==
  IF Len(BoundTokens) >= 2 /\ BoundTokens[2] # <<>> THEN ParseInt(BoundTokens[2])
  ELSE [nan |-> FALSE, val |-> FileSize[<<req.file, loc.chosen>>] - 1]

NumericBounds == ~StartBound.nan /\ ~EndBound.nan

HeaderIs(k, v) == HasHeader(res.headers, k) /\ res.headers[k] = v

\* C1: a streamed response to a request whose Range header parses to numeric
\* bounds with start <= end has status 206, Content-Range
\* bytes <start>-<end>/<total>, Accept-Ranges bytes and Content-Length
\* end-start+1.
C1_PartialResponseHeaders ==
  (Streamed /\ HasRange /\ NumericBounds /\ StartBound.val <= EndBound.val)
    => /\ res.status = 206
       /\ HeaderIs("Content-Range",
                   ContentRange(StartBound.val, EndBound.val,
                                FileSize[<<req.file, loc.chosen>>]))
       /\ HeaderIs("Accept-Ranges", "bytes")
       /\ HeaderIs("Content-Length", EndBound.val - StartBound.val + 1)

\* C2: a range served with status 206 satisfies 0 <= start <= end <= total-1,
\* and a Range header whose numeric bounds violate this is answered with a
\* 4xx status.
C2_ServedRangeWithinFile ==
  /\ (Streamed /\ res.status = 206)
       => /\ 0 <= loc.start
          /\ loc.start <= loc.end
          /\ loc.end <= loc.total - 1
  /\ (pc = "done" /\ Observed("statSync", loc.chosen, TRUE)
        /\ ~Observed("open", loc.chosen, FALSE) /\ HasRange /\ NumericBounds
        /\ ~(0 <= StartBound.val /\ StartBound.val <= EndBound.val
               /\ EndBound.val <= FileSize[<<req.file, loc.chosen>>] - 1))
       => res.status \in 400..499

\* C3: on an existing asset, a Range header with start > end or a
\* non-numeric bound is answered with status 416, Content-Range
\* bytes */<total>, an empty body, and no read stream is created.
C3_UnsatisfiableRange ==
  (pc = "done" /\ Observed("statSync", loc.chosen, TRUE) /\ HasRange
     /\ (StartBound.nan \/ EndBound.nan \/ StartBound.val > EndBound.val))
    => /\ res.status = 416
       /\ HeaderIs("Content-Range",
                   ContentRangeStar(FileSize[<<req.file, loc.chosen>>]))
       /\ res.finished
       /\ res.body = NoBody
       /\ \A i \in 1..Len(log) : log[i].op \notin {"createReadStream", "open"}

\* A request whose end bound is not numeric was answered 416 after the gzip
\* sibling had been selected.
C3_Witness ==
  /\ pc = "done"
  /\ res.status = 416
  /\ HasRange
  /\ EndBound.nan
  /\ loc.chosen = "gz"

\* The body of the full response (no Range header) to a request for the same
\* file with the same Accept-Encoding, the same variant being selected.
FullResponseBody ==
  LET p == <<req.file, loc.chosen>>
      h == FullHeadersOut(CommonHeaders(NoHeaders, req.file, loc.contentEncoding),
                          FileSize[p])
  IN  FileBody(p, 0, FileSize[p] - 1, CompressionCoding(req.acceptEnc, h, FALSE, 0))

\* Body b is bytes first..last of body full. The bytes of a body that went
\* through a compression stream are those of the compressed stream, not of
\* the file, so they are compared only when no such stream was used.
IsSliceOf(b, full, first, last) ==
  /\ b.coding = "identity"
  /\ full.coding = "identity"
  /\ b.kind = "file" /\ full.kind = "file"
  /\ b.file = full.file
  /\ b.from = full.from + first
  /\ b.to = full.from + last

\* C4: for 0 <= start <= end < total, the body of the 206 response has
\* end-start+1 bytes and is bytes start..end of the body of the full response
\* for the same asset and Accept-Encoding.
C4_RangeBodyIsSliceOfFullBody ==
  (Streamed /\ HasRange /\ NumericBounds /\ res.status = 206
     /\ 0 <= StartBound.val /\ StartBound.val <= EndBound.val
     /\ EndBound.val < FileSize[<<req.file, loc.chosen>>])
    => /\ IsSliceOf(res.body, FullResponseBody, StartBound.val, EndBound.val)
       /\ res.body.to - res.body.from + 1 = EndBound.val - StartBound.val + 1

\* C5: a request with no Range header on an existing asset is answered with
\* status 200, Accept-Ranges bytes and Content-Length equal to the size of
\* the selected variant, and the whole selected file is streamed.
C5_FullResponse ==
  (Streamed /\ req.range = Undefined)
    => /\ res.status = 200
       /\ HeaderIs("Accept-Ranges", "bytes")
       /\ HeaderIs("Content-Length", FileSize[<<req.file, loc.chosen>>])
       /\ res.body.kind = "file"
       /\ res.body.file = <<req.file, loc.chosen>>
       /\ res.body.from = 0
       /\ res.body.to = FileSize[<<req.file, loc.chosen>>] - 1

\* C6: a request for a file that does not exist is answered with status 404
\* and the short text 'Not found'; no variant is selected and no other file
\* system call (existsSync of a sibling, statSync, stream open) is made.
C6_NotFound ==
  (pc = "done" /\ Observed("existsSync", "glb", FALSE))
    => /\ res.status = 404
       /\ res.finished
       /\ res.body = TextBody("Not found")
       /\ log = <<Call("existsSync", "glb", FALSE)>>
       /\ loc = InitLoc

\* A request for lamp.glb was answered 404 while the directory holds another
\* model.
C6_Witness ==
  /\ pc = "done"
  /\ res.status = 404
  /\ req.file = "lamp.glb"
  /\ fs[<<"chair-optimized.glb", "glb">>].exists

\* The handler is past its brotli test (past both tests).
PastBrTest ==
  \/ pc \in {"selectGz", "stat", "opening", "piping", "streaming"}
  \/ pc = "done" /\ Observed("existsSync", "glb", TRUE)

PastGzipTest ==
  \/ pc \in {"stat", "opening", "piping", "streaming"}
  \/ pc = "done" /\ Observed("existsSync", "glb", TRUE)

\* The Accept-Encoding value, empty when the header is absent.
AcceptEncodingValue == IF req.acceptEnc = Undefined THEN <<>> ELSE req.acceptEnc

\* C7: whenever Accept-Encoding contains "br" the .br sibling is looked for,
\* and when it exists it is the variant served, with Content-Encoding br,
\* also when the header contains "gzip" and a .gz sibling exists.
C7_BrotliPreferred ==
  (PastBrTest /\ Includes(AcceptEncodingValue, StrBr))
    => /\ Observed("existsSync", "br", TRUE) \/ Observed("existsSync", "br", FALSE)
       /\ Observed("existsSync", "br", TRUE)
            => /\ loc.chosen = "br"
               /\ loc.contentEncoding = "br"
               /\ Streamed => /\ HeaderIs("Content-Encoding", "br")
                              /\ res.body.file = <<req.file, "br">>

\* The brotli sibling was streamed for a header that also contains "gzip",
\* while the .gz sibling exists.
C7_Witness ==
  /\ Streamed
  /\ res.body.file = <<req.file, "br">>
  /\ Includes(AcceptEncodingValue, StrGzip)
  /\ fs[<<req.file, "gz">>].exists

\* C8: when brotli is not selected, the .gz sibling is looked for whenever
\* Accept-Encoding contains "gzip", and the gzip sibling is served with
\* Content-Encoding gzip if and only if the header contains "gzip" and the
\* sibling exists.
C8_GzipSecond ==
  (PastGzipTest /\ loc.chosen # "br")
    => /\ Includes(AcceptEncodingValue, StrGzip)
            => \/ Observed("existsSync", "gz", TRUE)
               \/ Observed("existsSync", "gz", FALSE)
       /\ (loc.chosen = "gz" /\ loc.contentEncoding = "gzip")
            <=> (Includes(AcceptEncodingValue, StrGzip)
                   /\ Observed("existsSync", "gz", TRUE))
       /\ Streamed
            => ((res.body.file = <<req.file, "gz">>
                   /\ HeaderIs("Content-Encoding", "gzip"))
                <=> (Includes(AcceptEncodingValue, StrGzip)
                       /\ Observed("existsSync", "gz", TRUE)))

\* The gzip sibling was streamed for a header that contains "br" too, the
\* .br sibling being absent.
C8_Witness ==
  /\ Streamed
  /\ res.body.file = <<req.file, "gz">>
  /\ Includes(AcceptEncodingValue, StrBr)
  /\ Observed("existsSync", "br", FALSE)

\* C9: when neither the brotli nor the gzip rule applies, the canonical file
\* is served and the response has no Content-Encoding header.
C9_IdentityHasNoContentEncoding ==
  (Streamed
     /\ ~(Includes(AcceptEncodingValue, StrBr) /\ Observed("existsSync", "br", TRUE))
     /\ ~(Includes(AcceptEncodingValue, StrGzip) /\ Observed("existsSync", "gz", TRUE)))
    => /\ res.body.file = <<req.file, "glb">>
       /\ ~HasHeader(res.headers, "Content-Encoding")

\* The sibling v at the time of a step is older than the canonical file.
Stale(n, v) ==
  /\ fs[<<n, v>>].exists
  /\ fs[<<n, "glb">>].exists
  /\ fs[<<n, v>>].mtime < fs[<<n, "glb">>].mtime

\* C10: a step that selects a sibling never selects one that is older than
\* the canonical file.
C10_StaleSiblingNeverSelected ==
  [][/\ (pc = "selectBr" /\ loc'.chosen = "br") => ~Stale(req.file, "br")
     /\ (pc = "selectGz" /\ loc'.chosen = "gz") => ~Stale(req.file, "gz")]_vars

\* The request was answered with one of the statuses in codes.
Answered(codes) == pc = "done" /\ res.status \in codes

\* The byte size of the variant selected for this request.
SelectedSize == FileSize[<<req.file, loc.chosen>>]

\* C11: the total of Content-Range (206 and 416) and the Content-Length of a
\* full response (200) are the byte size of the selected variant, and the
\* bytes of a 200 or 206 response are read from that same file.
C11_SizesAreOfSelectedVariant ==
  /\ Answered({206, 416})
       => /\ HasHeader(res.headers, "Content-Range")
          /\ res.headers["Content-Range"].total = SelectedSize
  /\ Answered({200})
       => HeaderIs("Content-Length", SelectedSize)
  /\ Answered({200, 206})
       => /\ res.body.kind = "file"
          /\ res.body.file = <<req.file, loc.chosen>>

\* C12: the Cache-Control header of a 200, 206 or 416 response is the one
\* year immutable policy when the requested name contains "-optimized" and
\* the one day policy otherwise, whatever variant was selected and whatever
\* the Range header.
C12_CacheControlByName ==
  Answered({200, 206, 416})
    => HeaderIs("Cache-Control",
                IF Includes(NameChars(req.file), StrOptimized)
                THEN "public, max-age=31536000, immutable"
                ELSE "public, max-age=86400")

\* A partial response served from the brotli sibling of a name that contains
\* "-optimized" among other characters.
C12_Witness ==
  /\ Answered({206})
  /\ loc.chosen = "br"
  /\ Includes(NameChars(req.file), StrOptimized)
  /\ NameChars(req.file) # StrOptimized
  /\ HeaderIs("Cache-Control", "public, max-age=31536000, immutable")

\* C13: every 200, 206 and 416 response carries Content-Type
\* model/gltf-binary and Vary Accept-Encoding.
C13_ContentTypeAndVary ==
  Answered({200, 206, 416})
    => /\ HeaderIs("Content-Type", "model/gltf-binary")
       /\ HeaderIs("Vary", "Accept-Encoding")

\* An unsatisfiable range answered 416 after the gzip sibling was selected,
\* with both headers present.
C13_Witness ==
  /\ Answered({416})
  /\ loc.chosen = "gz"
  /\ HasRange
  /\ HeaderIs("Content-Type", "model/gltf-binary")
  /\ HeaderIs("Vary", "Accept-Encoding")

\* The last call recorded by a step, when the step recorded one.
Recorded(op, v, ok) ==
  /\ Len(log') > Len(log)
  /\ \E i \in (Len(log) + 1)..Len(log') : log'[i] = Call(op, v, ok)

\* The selected file, found by existsSync, was gone when it was stat-ed or
\* when its stream was opened.
DeletedUnderRequest ==
  /\ Observed("existsSync", loc.chosen, TRUE)
  /\ \/ Observed("statSync", loc.chosen, FALSE)
     \/ Observed("open", loc.chosen, FALSE)

\* C15: a request whose selected file was deleted after the existence check
\* and before the stat or the stream open is answered with status 500, and
\* the process is still running and ready to take the next request.
C15_DeletionRaceAnswered500 ==
  DeletedUnderRequest
    => /\ pc = "done"
       /\ res.status = 500
       /\ res.finished
       /\ ENABLED Close

\* The brotli sibling was selected and then deleted before the stat.
C15_Witness ==
  /\ loc.chosen = "br"
  /\ Observed("existsSync", "br", TRUE)
  /\ Observed("statSync", "br", FALSE)
  /\ ~fs[<<req.file, "br">>].exists
  /\ res.status = 500

\* C16: a step in which the read stream fails while no response byte has been
\* sent ends the request with status 500 in place of the prepared 200 or 206
\* and logs the error.
C16_EarlyStreamErrorIs500 ==
  [][(/\ ~res.headersSent
      /\ \/ Recorded("open", loc.chosen, FALSE)
         \/ Recorded("read", loc.chosen, FALSE))
       => /\ res.status \in {200, 206}
          /\ res'.status = 500
          /\ res'.finished
          /\ pc' = "done"
          /\ Recorded("console.error", loc.chosen, TRUE)]_vars

\* The stream of a partial response failed after it was opened and before the
\* headers were written; the request ended with status 500.
C16_Witness ==
  /\ pc = "done"
  /\ Observed("open", loc.chosen, TRUE)
  /\ Observed("read", loc.chosen, FALSE)
  /\ Observed("console.error", loc.chosen, TRUE)
  /\ HasRange
  /\ res.status = 500

\* The positions from which the handler or a callback of the read stream
\* takes the request one step further.
Continuing ==
  pc \in {"exists", "selectBr", "selectGz", "stat", "opening", "piping", "streaming"}

\* The number of calls of op recorded for the request.
Calls(op) == Cardinality({i \in 1..Len(log) : log[i].op = op})

\* C17: a request in progress has ended or has a next step to take; a request
\* that has ended has one of the statuses 200, 206, 404, 416, 500 and its
\* response is complete; the selected file is stat-ed at most once and a
\* stream is created at most once.
C17_EndsOnceWithoutRetry ==
  /\ pc # "idle" => (pc = "done" \/ Continuing)
  /\ pc = "done" => /\ res.finished
                    /\ res.status \in {200, 206, 404, 416, 500}
  /\ Calls("statSync") <= 1
  /\ Calls("createReadStream") <= 1
  /\ Calls("open") <= 1

\* C14: every response the handler of GET /models/:file produces, whatever
\* its status and whatever the Origin header of the request, has
\* Access-Control-Allow-Origin "*".
C14_AllowOriginIsStar ==
  (pc = "done" /\ Len(log) > 0 /\ res.status \in {200, 206, 404, 416, 500})
    => HeaderIs("Access-Control-Allow-Origin", "*")

\* Two requests carry the same file name, Accept-Encoding and Range.
SameInputs(r1, r2) ==
  /\ r1.file = r2.file
  /\ r1.acceptEnc = r2.acceptEnc
  /\ r1.range = r2.range

SentInStep(c, m) ==
  Cardinality({i \in (Len(sent[c]) + 1)..Len(sent'[c]) : sent'[c][i] = m})

\* C19: a step that handles a message from socket c sends that message
\* exactly once to every other socket that is OPEN at that moment, and sends
\* nothing to c nor to a socket that is not OPEN.
C19_BroadcastToOtherOpenClients ==
  [][Len(inbox') = Len(inbox) + 1
       => LET event == inbox'[Len(inbox')]
          IN  \A d \in Clients :
                /\ Len(sent'[d]) >= Len(sent[d])
                /\ SubSeq(sent'[d], 1, Len(sent[d])) = sent[d]
                /\ IF d # event.from /\ clients[d] = "OPEN"
                   THEN /\ Len(sent'[d]) = Len(sent[d]) + 1
                        /\ SentInStep(d, event.message) = 1
                   ELSE Len(sent'[d]) = Len(sent[d])]_vars

\* A message from c1 was relayed to c2, OPEN, and neither to c1 nor to c3,
\* which was closing.
C19_Witness ==
  /\ Len(inbox) = 1
  /\ inbox[1].from = "c1"
  /\ clients["c2"] = "OPEN"
  /\ clients["c3"] = "CLOSING"
  /\ sent["c2"] = <<inbox[1].message>>
  /\ sent["c1"] = <<>>
  /\ sent["c3"] = <<>>

\* The names of the directory that end in ".glb", whatever their case.
GlbNames == {files[i] : i \in {k \in 1..Len(files) : IsGlbFile(files[k])}}

\* The position of a name in the directory listing.
DirIndex(name) == CHOOSE i \in 1..Len(files) : files[i] = name

\* C20: the answer of GET /api/models has one entry for each file whose name
\* ends in ".glb" case-insensitively and for no other file; every entry
\* flagged optimized comes before every entry not flagged, and inside each
\* of the two groups the entries are in directory order.
C20_ListingFilteredOptimizedFirst ==
  (models.sent /\ models.status = 200)
    => LET l == models.json
       IN  /\ {l[i].name : i \in 1..Len(l)} = GlbNames
           /\ Len(l) = Cardinality(GlbNames)
           /\ \A i, j \in 1..Len(l) :
                 (i < j /\ l[j].optimized) => l[i].optimized
           /\ \A i, j \in 1..Len(l) :
                 (i < j /\ l[i].optimized = l[j].optimized)
                   => DirIndex(l[i].name) < DirIndex(l[j].name)

\* A directory of three models, the first not flagged, the second flagged,
\* the third in upper case and not flagged: the flagged one is listed first
\* and the other two keep their order.
C20_Witness ==
  /\ models.sent
  /\ models.status = 200
  /\ Len(files) = 3
  /\ Len(models.json) = 3
  /\ models.json[1].name = files[2]
  /\ models.json[2].name = files[1]
  /\ models.json[3].name = files[3]
  /\ models.json[1].optimized
  /\ ~models.json[2].optimized
  /\ ToLowerCase(files[3]) # files[3]

\* C22: a step in which the read stream fails after the headers of the
\* response were sent sets no status and no header on it, and the process
\* keeps running.
C22_LateStreamErrorLeavesResponse ==
  [][(res.headersSent /\ Recorded("read", loc.chosen, FALSE))
       => /\ pc' # "crashed"
          /\ res'.status = res.status
          /\ res'.headers = res.headers]_vars

\* A turn of files.forEach was taken for model n.
Processed(n) ==
  /\ script.pc = "running"
  /\ script.queue # <<>>
  /\ Head(script.queue) = n
  /\ script'.queue = Tail(script.queue)

\* C21: the script writes a sibling if and only if it is absent or its
\* modification time is older than the canonical file's, and leaves every
\* other sibling untouched; a second run over unchanged canonical files
\* writes nothing.
C21_WritesOnlyMissingOrOlder ==
  [][/\ \A n \in Names, v \in Siblings :
          Processed(n)
            => (streams'[<<n, v>>] = "created"
                  <=> (\/ ~fs[<<n, v>>].exists
                       \/ fs[<<n, v>>].mtime < fs[<<n, "glb">>].mtime))
     /\ \A p \in SiblingPaths :
          (streams[p] = "none" /\ streams'[p] = "none") => fs'[p] = fs[p]
     /\ script'.run >= 2 => \A p \in SiblingPaths : streams'[p] = "none"]_vars

\* A second run has ended over a sibling the first run wrote and a sibling
\* of the same age as the canonical file that no run wrote.
C21_Witness ==
  /\ script.run = 2
  /\ script.pc = "exited"
  /\ fs[<<"chair-optimized.glb", "gz">>].mtime = 2
  /\ fs[<<"chair-optimized.glb", "br">>].mtime = fs[<<"chair-optimized.glb", "glb">>].mtime
  /\ fs[<<"chair-optimized.glb", "br">>].exists

\* C24: when 'Precompress complete' has been printed, every sibling this run
\* decided to write is completely written.
C24_CompleteMeansWritten ==
  script.printed
    => \A p \in SiblingPaths : streams[p] \in {"none", "finished"}

\* C23: a step of the handler that selects a sibling selects a completely
\* written file, also while the precompression script is running.
C23_SelectedSiblingIsComplete ==
  [][/\ (pc = "selectBr" /\ loc'.chosen = "br") => fs[<<req.file, "br">>].complete
     /\ (pc = "selectGz" /\ loc'.chosen = "gz") => fs[<<req.file, "gz">>].complete]_vars

\* C25: a request GET /api/models/<id>, for the id of an entry that
\* GET /api/models returned on the same directory, does not answer 404 and
\* returns the name of that entry.
C25_ListedIdResolves ==
  (models.sent /\ models.status = 200 /\ info.sent)
    => \A i \in 1..Len(models.json) :
         models.json[i].id = info.id
           => /\ info.status = 200
              /\ info.json.name = models.json[i].name

\* C26: an entry of GET /api/models is flagged optimized exactly when
\* GET /models/<name> answers with the one year immutable Cache-Control.
C26_OptimizedFlagMatchesCachePolicy ==
  (models.sent /\ models.status = 200)
    => \A i \in 1..Len(models.json) :
         models.json[i].optimized
           <=> CacheControlFor(models.json[i].name)
                 = "public, max-age=31536000, immutable"

====
